---- MODULE Spec2Model ----
(***************************************************************************)
(* Model of the Blinka colour-font experiment scripts                      *)
(* (src/create_simple_purple_blinka.py, src/font_experiments/*.py).        *)
(*                                                                         *)
(* Every script is one batch run: load a raster image, classify its        *)
(* visible pixels into colour groups, build one glyph per group out of     *)
(* rectangle contours, compute the advance width, assemble the palette     *)
(* and the COLR layer list, save the font.  A run is modelled as a         *)
(* process whose position is pc; an uncaught Python exception moves the    *)
(* run to pc = "error" with the exception's name in err.                   *)
(*                                                                         *)
(* src/font_test_server.py is modelled next to them: one call of           *)
(* start_server(port), whose position is spc.                              *)
(***************************************************************************)
EXTENDS Integers, Sequences, FiniteSets, TLC

VARIABLES script, img, pc, err, groups, all_visible, bounds,
          glyphs, metrics, palette, colr_layers, saved,
          platform, port, missing_files, attempt_port, attempts, spc, result

\* the state of a font script run
fontVars == <<script, img, pc, err, groups, all_visible, bounds,
              glyphs, metrics, palette, colr_layers, saved>>

\* the state of a start_server call
serverVars == <<platform, port, missing_files, attempt_port, attempts, spc, result>>

vars == <<fontVars, serverVars>>

(***************************************************************************)
(* Bounds of the model                                                     *)
(***************************************************************************)
\* number of colours of ColorList that an input image may use
NumColors == 5
\* number of image cells (per image size) that may differ from cell (0,0)
MaxCand == 3

(***************************************************************************)
(* Generic helpers                                                         *)
(***************************************************************************)
Min2(a, b) == IF a <= b THEN a ELSE b

Range(s) == { s[i] : i \in 1..Len(s) }

SetMin(S) == CHOOSE m \in S : \A n \in S : m <= n

SetMax(S) == CHOOSE m \in S : \A n \in S : m >= n

\* position of the first occurrence of v in s, 0 when absent (list.index)
RECURSIVE IndexFrom(_, _, _)
IndexFrom(s, v, i) ==
    IF i > Len(s) THEN 0
    ELSE IF s[i] = v THEN i
    ELSE IndexFrom(s, v, i + 1)

IndexOf(s, v) == IndexFrom(s, v, 1)

\* the concatenation of the sequences of a sequence, in order
RECURSIVE Flatten(_)
Flatten(ss) == IF ss = <<>> THEN <<>> ELSE Head(ss) \o Flatten(Tail(ss))

DigitStr == <<"0", "1", "2", "3", "4", "5", "6", "7", "8", "9">>

\* f"{i:02d}" for 0 <= i <= 99
Fmt02d(i) == DigitStr[(i \div 10) + 1] \o DigitStr[(i % 10) + 1]

\* f"{i}" for 0 <= i <= 99
FmtInt(i) == IF i < 10 THEN DigitStr[i + 1] ELSE Fmt02d(i)

(***************************************************************************)
(* Colours                                                                 *)
(***************************************************************************)
white_rgb == <<255, 255, 255>>
light_blue_rgb == <<166, 202, 240>>
purple_rgb == <<128, 32, 192>>
purple2_rgb == <<96, 24, 144>>
purple3_rgb == <<160, 32, 192>>
gray_base_rgb == <<96, 64, 128>>

seventeen_colors ==
    << <<255, 255, 255>>, <<166, 202, 240>>, <<128, 32, 192>>,
       <<96, 24, 144>>, <<96, 64, 128>>, <<160, 32, 192>>,
       <<61, 43, 52>>, <<40, 49, 58>>, <<102, 26, 154>>,
       <<120, 24, 144>>, <<128, 26, 154>>, <<224, 160, 192>>,
       <<64, 42, 85>>, <<60, 40, 80>>, <<38, 46, 55>>,
       <<0, 64, 192>>, <<56, 40, 48>> >>

\* The colours input images are drawn from: the black background of
\* assets/blinka.bmp, colours the scripts name, and colours none of them
\* names (<<10,20,30>>, <<200,100,50>>, <<7,7,7>>).
ColorList ==
    << <<0, 0, 0>>, <<255, 255, 255>>, <<166, 202, 240>>, <<128, 32, 192>>,
       <<10, 20, 30>>, <<96, 24, 144>>, <<40, 49, 58>>, <<128, 26, 154>>,
       <<200, 100, 50>>, <<96, 64, 128>>, <<160, 32, 192>>, <<7, 7, 7>>,
       <<61, 43, 52>> >>

Colors == { ColorList[i] : i \in 1..Min2(NumColors, Len(ColorList)) }

\* lexicographic order of RGB tuples (Python tuple comparison)
RgbLess(a, b) ==
    \/ a[1] < b[1]
    \/ a[1] = b[1] /\ a[2] < b[2]
    \/ a[1] = b[1] /\ a[2] = b[2] /\ a[3] < b[3]

(***************************************************************************)
(* Raster images                                                           *)
(*                                                                         *)
(* An image is [w, h, px]: px gives the colour of the cells that may       *)
(* differ from cell (0,0); every other cell has the colour of cell (0,0).  *)
(***************************************************************************)
ImageSizes == { <<2, 2>>, <<3, 2>>, <<16, 16>> }

CandList(size) ==
    IF size = <<2, 2>> THEN << <<0, 0>>, <<1, 0>>, <<0, 1>>, <<1, 1>> >>
    ELSE IF size = <<3, 2>>
    THEN << <<0, 0>>, <<2, 0>>, <<1, 1>>, <<0, 1>>, <<1, 0>>, <<2, 1>> >>
    ELSE << <<0, 0>>, <<0, 14>>, <<14, 15>>, <<0, 15>>, <<5, 3>>, <<15, 0>> >>

CandPositions(size) ==
    { CandList(size)[i] : i \in 1..Min2(MaxCand, Len(CandList(size))) }

ImagesOfSize(size) ==
    { [w |-> size[1], h |-> size[2], px |-> f] : f \in [CandPositions(size) -> Colors] }

\* the 2 x 2 image whose pixel (0,0) is (128,32,192) and whose other pixels
\* are black
ScenarioA ==
    [w |-> 2, h |-> 2,
     px |-> [ p \in (0..1) \X (0..1) |->
                IF p = <<0, 0>> THEN <<128, 32, 192>> ELSE <<0, 0, 0>> ]]

Images == UNION { ImagesOfSize(size) : size \in ImageSizes } \cup {ScenarioA}

\* img.getpixel((x, y))[:3] for a cell inside the image
getpixel(image, p) ==
    IF p \in DOMAIN image.px THEN image.px[p] ELSE image.px[<<0, 0>>]

\* PIL raises IndexError for a cell outside the image
InImage(image, p) ==
    p[1] >= 0 /\ p[1] < image.w /\ p[2] >= 0 /\ p[2] < image.h

\* bg_color = img.getpixel((0, 0))[:3]
bg_color(image) == image.px[<<0, 0>>]

ScanKey(image, p) == p[2] * image.w + p[1]

RECURSIVE SortScan(_, _)
SortScan(image, S) ==
    IF S = {} THEN <<>>
    ELSE LET m == CHOOSE p \in S : \A q \in S : ScanKey(image, p) <= ScanKey(image, q)
         IN <<m>> \o SortScan(image, S \ {m})

\* the cells the loops "for y ... for x ..." visit whose colour is not the
\* background colour, in the order of the visit
ScanVisible(image) ==
    SortScan(image, { p \in DOMAIN image.px : image.px[p] # bg_color(image) })

(***************************************************************************)
(* The scripts                                                             *)
(***************************************************************************)
SimplePurple == "create_simple_purple_blinka"
ThreeColor == "create_three_color_blinka"
Compensated == "create_compensated_three_color_blinka"
SixColor == "create_six_color_blinka"
CompleteColor == "create_complete_color_blinka"
FixedSix == "create_fixed_six_color_blinka"
SingleLayer == "create_single_layer_color_blinka"
CleanSplit == "create_clean_split_blinka"
FinalSeventeen == "create_final_seventeen_color_blinka"
NaturalAnchor == "create_natural_anchor_blinka"
TerminalOptimized == "create_terminal_optimized_blinka"
EmptySpacers == "create_empty_spacers_blinka"
SnappedCoordinate == "create_snapped_coordinate_blinka"
OffsetSpacers == "create_offset_spacers_blinka"

\* classification by a fixed list of named colours with a catch-all branch
NamedScripts == {ThreeColor, Compensated, SixColor}
\* classification by the most frequent colours, merging the rest
TopNScripts == {FixedSix, SingleLayer}
\* classification by the seventeen listed colours, no catch-all branch
SeventeenScripts == {FinalSeventeen, NaturalAnchor, TerminalOptimized}
\* scripts that take min/max over all visible pixels right after classifying
OverallBoundsScripts == SeventeenScripts \cup {CleanSplit, EmptySpacers, OffsetSpacers}
\* scripts whose layer builder reads the natural anchor cells
AnchorScripts == {NaturalAnchor, TerminalOptimized}

Scripts == {SimplePurple, CompleteColor, CleanSplit, EmptySpacers, SnappedCoordinate,
            OffsetSpacers}
           \cup NamedScripts \cup TopNScripts \cup SeventeenScripts

(***************************************************************************)
(* Pixel classification                                                    *)
(*                                                                         *)
(* The result is a sequence of groups [color, pixels] in the order the     *)
(* script creates them; pixels are in scan order.                          *)
(***************************************************************************)
Group(c, ps) == [color |-> c, pixels |-> ps]

\* the pixels of the group of colour c; <<>> if there is none
\* (color_pixel_groups.get(color, []))
RECURSIVE PixelsOf(_, _)
PixelsOf(gs, c) ==
    IF gs = <<>> THEN <<>>
    ELSE IF Head(gs).color = c THEN Head(gs).pixels
    ELSE PixelsOf(Tail(gs), c)

\* create_three_color_blinka: the if/elif chain of the classification loop
\* (the background test comes first and is applied by ScanVisible)
ThreeBranch(rgb) ==
    IF rgb = white_rgb THEN white_rgb
    ELSE IF rgb = light_blue_rgb THEN light_blue_rgb
    ELSE purple_rgb

ClassifyThree(image) ==
    LET scan == ScanVisible(image)
        of(c) == SelectSeq(scan, LAMBDA p : ThreeBranch(getpixel(image, p)) = c)
    IN << Group(white_rgb, of(white_rgb)),
          Group(light_blue_rgb, of(light_blue_rgb)),
          Group(purple_rgb, of(purple_rgb)) >>

\* create_six_color_blinka: the if/elif chain of the classification loop
SixBranch(rgb) ==
    IF rgb = white_rgb THEN white_rgb
    ELSE IF rgb = light_blue_rgb THEN light_blue_rgb
    ELSE IF rgb = purple_rgb THEN purple_rgb
    ELSE IF rgb = purple2_rgb THEN purple2_rgb
    ELSE IF rgb = purple3_rgb THEN purple3_rgb
    ELSE IF rgb = gray_base_rgb THEN gray_base_rgb
    ELSE purple_rgb

ClassifySix(image) ==
    LET scan == ScanVisible(image)
        of(c) == SelectSeq(scan, LAMBDA p : SixBranch(getpixel(image, p)) = c)
    IN << Group(white_rgb, of(white_rgb)),
          Group(light_blue_rgb, of(light_blue_rgb)),
          Group(purple_rgb, of(purple_rgb)),
          Group(purple2_rgb, of(purple2_rgb)),
          Group(purple3_rgb, of(purple3_rgb)),
          Group(gray_base_rgb, of(gray_base_rgb)) >>

\* create_simple_purple_blinka: one list of all visible pixels
ClassifySimple(image) == << Group(purple_rgb, ScanVisible(image)) >>

\* create_clean_split_blinka: top half (palette entry 0, purple) and bottom
\* half (palette entry 1, blue) of the visible pixels
blue_rgb == <<64, 128, 255>>

ClassifySplit(image) ==
    LET scan == ScanVisible(image)
        mid_y == image.h \div 2
    IN << Group(purple_rgb, SelectSeq(scan, LAMBDA p : p[2] < mid_y)),
          Group(blue_rgb, SelectSeq(scan, LAMBDA p : p[2] >= mid_y)) >>

\* the distinct colours of the visible pixels in order of first appearance
\* (insertion order of the color_counts dict)
RECURSIVE FirstSeen(_, _, _)
FirstSeen(image, scan, acc) ==
    IF scan = <<>> THEN acc
    ELSE LET rgb == getpixel(image, Head(scan))
         IN FirstSeen(image, Tail(scan),
                      IF IndexOf(acc, rgb) # 0 THEN acc ELSE Append(acc, rgb))

\* color_counts[rgb]
CountOf(image, scan, rgb) ==
    Cardinality({ i \in 1..Len(scan) : getpixel(image, scan[i]) = rgb })

\* sorted(color_counts.items(), key=lambda x: x[1], reverse=True): by
\* descending count; the sort is stable, so equal counts keep the order of
\* first appearance
SortedByCount(image) ==
    LET scan == ScanVisible(image)
        seen == FirstSeen(image, scan, <<>>)
        n(c) == CountOf(image, scan, c)
        rank(i) == 1 + Cardinality({ j \in 1..Len(seen) :
                        \/ n(seen[j]) > n(seen[i])
                        \/ n(seen[j]) = n(seen[i]) /\ j < i })
    IN [ k \in 1..Len(seen) |-> seen[CHOOSE i \in 1..Len(seen) : rank(i) = k] ]

\* number of colours kept by create_fixed_six_color_blinka (sorted_colors[:6])
\* and by create_single_layer_color_blinka (sorted_colors[:3])
TopCount(s) == IF s = FixedSix THEN 6 ELSE 3

top_colors(s, image) ==
    LET sorted == SortedByCount(image)
    IN SubSeq(sorted, 1, Min2(TopCount(s), Len(sorted)))

\* LargestIndex with a tie going to the last group of maximal length
LargestIndexLast(acc) ==
    CHOOSE k \in 1..Len(acc) :
        /\ \A j \in 1..Len(acc) : Len(acc[j]) <= Len(acc[k])
        /\ \A j \in (k + 1)..Len(acc) : Len(acc[j]) < Len(acc[k])

\* max(top_colors, key=lambda c: len(color_pixels[c])): the first group of
\* maximal length
LargestIndex(acc) ==
    CHOOSE k \in 1..Len(acc) :
        /\ \A j \in 1..Len(acc) : Len(acc[j]) <= Len(acc[k])
        /\ \A j \in 1..(k - 1) : Len(acc[j]) < Len(acc[k])

\* the classification loop of the top-N scripts: a pixel of a kept colour
\* goes to that colour's list, any other to the largest list at that moment
RECURSIVE MergeLoop(_, _, _, _)
MergeLoop(image, scan, top, acc) ==
    IF scan = <<>> THEN acc
    ELSE LET p == Head(scan)
             k == IndexOf(top, getpixel(image, p))
             t == IF k # 0 THEN k ELSE LargestIndex(acc)
         IN MergeLoop(image, Tail(scan), top, [acc EXCEPT ![t] = Append(@, p)])

ClassifyTopN(s, image) ==
    LET top == top_colors(s, image)
        lists == MergeLoop(image, ScanVisible(image), top, [k \in 1..Len(top) |-> <<>>])
    IN [ k \in 1..Len(top) |-> Group(top[k], lists[k]) ]

\* color_list with the background colour collected like any other colour
color_list_with_background(image) ==
    LET cs == { getpixel(image, p) : p \in (0..(image.w - 1)) \X (0..(image.h - 1)) }
        rank(c) == 1 + Cardinality({ d \in cs : RgbLess(d, c) })
    IN [ k \in 1..Cardinality(cs) |-> CHOOSE c \in cs : rank(c) = k ]

\* sorted(list(all_colors)): ascending RGB tuple
color_list(image) ==
    LET cs == { getpixel(image, p) : p \in Range(ScanVisible(image)) }
        rank(c) == 1 + Cardinality({ d \in cs : RgbLess(d, c) })
    IN [ k \in 1..Cardinality(cs) |-> CHOOSE c \in cs : rank(c) = k ]

\* create_complete_color_blinka: one list per distinct colour
ClassifyComplete(image) ==
    LET scan == ScanVisible(image)
        cl == color_list(image)
    IN [ k \in 1..Len(cl) |->
           Group(cl[k], SelectSeq(scan, LAMBDA p : getpixel(image, p) = cl[k])) ]

\* the classification loop of the seventeen-colour scripts: a pixel whose
\* colour is one of seventeen_colors is appended to that colour's entry of
\* color_pixel_groups (created on first use); for any other colour the inner
\* for loop ends without a match and nothing is appended
RECURSIVE SeventeenLoop(_, _, _)
SeventeenLoop(image, scan, acc) ==
    IF scan = <<>> THEN acc
    ELSE LET p == Head(scan)
             rgb == getpixel(image, p)
             k == IndexOf([i \in 1..Len(acc) |-> acc[i].color], rgb)
             next == IF IndexOf(seventeen_colors, rgb) = 0 THEN acc
                     ELSE IF k = 0 THEN Append(acc, Group(rgb, <<p>>))
                     ELSE [acc EXCEPT ![k].pixels = Append(@, p)]
         IN SeventeenLoop(image, Tail(scan), next)

ClassifySeventeen(image) == SeventeenLoop(image, ScanVisible(image), <<>>)

\* the colour groups a script derives from an image
Classify(s, image) ==
    IF s = SimplePurple THEN ClassifySimple(image)
    ELSE IF s \in {ThreeColor, Compensated, SnappedCoordinate} THEN ClassifyThree(image)
    ELSE IF s = SixColor THEN ClassifySix(image)
    ELSE IF s = CompleteColor THEN ClassifyComplete(image)
    ELSE IF s \in TopNScripts THEN ClassifyTopN(s, image)
    ELSE IF s \in {CleanSplit, EmptySpacers, OffsetSpacers} THEN ClassifySplit(image)
    ELSE ClassifySeventeen(image)

\* the list of all visible pixels the script works with afterwards: the
\* scripts with groups only concatenate the groups (all_visible = white_pixels
\* + light_blue_pixels + purple_pixels), the others keep the scanned list
\* (all_visible_pixels, all_pixels, visible_pixels)
AllVisible(s, image, gs) ==
    IF s \in OverallBoundsScripts \cup {SimplePurple} THEN ScanVisible(image)
    ELSE Flatten([k \in 1..Len(gs) |-> gs[k].pixels])

(***************************************************************************)
(* Coordinates                                                             *)
(***************************************************************************)
\* scale_factor
scale_factor(s) == IF s = TerminalOptimized THEN 55 ELSE 4

\* base_offset, the literal 50 of "left = x * scale_factor + 50"
base_offset == 50

\* the literal 100 of "bottom = flipped_y * scale_factor + 100"
baseline_offset == 100

\* baseline_adjustment of create_terminal_layer_with_natural_anchors
baseline_adjustment == 0 - 150

\* glyph_width of create_terminal_optimized_blinka
terminal_glyph_width == 600

Rect(l, b, r, t) == [left |-> l, bottom |-> b, right |-> r, top |-> t]

\* min_x, max_x, min_y, max_y over a non-empty pixel list (raw raster rows)
OverallBounds(ps) ==
    [min_x |-> SetMin({ ps[i][1] : i \in 1..Len(ps) }),
     max_x |-> SetMax({ ps[i][1] : i \in 1..Len(ps) }),
     min_y |-> SetMin({ ps[i][2] : i \in 1..Len(ps) }),
     max_y |-> SetMax({ ps[i][2] : i \in 1..Len(ps) })]

NoBounds == [min_x |-> 0, max_x |-> 0 - 1, min_y |-> 0, max_y |-> 0 - 1]

\* horizontal_offset = horizontal_center - (shape_width // 2)
horizontal_offset(b) ==
    (terminal_glyph_width \div 2) - (((b.max_x - b.min_x + 1) * scale_factor(TerminalOptimized)) \div 2)

\* corrected_offset = 50 + 12 of create_snapped_coordinate_blinka
corrected_offset == base_offset + 12

\* the x offset and y offset a script adds to scaled coordinates
XOffset(s, b) ==
    IF s = TerminalOptimized THEN horizontal_offset(b)
    ELSE IF s = SnappedCoordinate THEN corrected_offset
    ELSE base_offset

YOffset(s) == IF s = TerminalOptimized THEN baseline_adjustment ELSE baseline_offset

\* PixelRect with the left and bottom edges snapped down to a multiple of
\* the scale factor
PixelRectSnapped(p, height, sf, xoff, yoff) ==
    LET flipped_y == height - 1 - p[2]
        left == ((p[1] * sf + xoff) \div sf) * sf
        bottom == ((flipped_y * sf + yoff) \div sf) * sf
    IN Rect(left, bottom, left + sf, bottom + sf)

\* PixelRect without the Y-axis flip (raster row used as font row)
PixelRectNoFlip(p, height, sf, xoff, yoff) ==
    LET left == p[1] * sf + xoff
        bottom == p[2] * sf + yoff
    IN Rect(left, bottom, left + sf, bottom + sf)

\* the rectangle drawn for pixel p: the body of the loop
\* "for x, y in pixel_positions" of create_color_layer_glyph
PixelRect(p, height, sf, xoff, yoff) ==
    LET flipped_y == height - 1 - p[2]
        left == p[1] * sf + xoff
        bottom == flipped_y * sf + yoff
    IN Rect(left, bottom, left + sf, bottom + sf)

\* create_color_layer_glyph, create_purple_layer_glyph,
\* create_region_glyph_with_forced_bounds: one rectangle per pixel
ColorLayerGlyph(s, image, b, ps) ==
    [ i \in 1..Len(ps) |->
        PixelRect(ps[i], image.h, scale_factor(s), XOffset(s, b), YOffset(s)) ]

\* offset_spacers of create_layer_with_offset_spacers: two coordinate pairs
\* appended to every layer's pixel list
offset_spacers == << <<-10, -10>>, <<30, 30>> >>

\* create_layer_with_offset_spacers: one rectangle per entry of
\* pixel_positions + offset_spacers
OffsetSpacerGlyph(s, image, b, ps) == ColorLayerGlyph(s, image, b, ps \o offset_spacers)

\* compensation_offsets of create_compensated_three_color_blinka
compensation_offsets(c) == IF c = light_blue_rgb THEN 12 ELSE 0

\* max(compensation_offsets.values())
max_compensation == 12

\* create_compensated_color_layer_glyph: the rectangle is shifted right by
\* the layer's compensation
CompensatedLayerGlyph(s, image, ps, compensation) ==
    [ i \in 1..Len(ps) |->
        LET r == PixelRect(ps[i], image.h, scale_factor(s), base_offset, baseline_offset)
        IN Rect(r.left + compensation, r.bottom,
                r.left + compensation + scale_factor(s), r.top) ]

\* create_layer_with_smart_spacers: the corners of the overall shape the
\* layer does not cover are added as spacers, and every cell that is a
\* spacer is drawn 1 x 1
SmartSpacers(b, ps, needs_spacers) ==
    IF needs_spacers /\ ps # <<>>
    THEN SelectSeq(<< <<b.min_x, b.min_y>>, <<b.max_x, b.max_y>> >>,
                   LAMBDA c : IndexOf(ps, c) = 0)
    ELSE <<>>

\* SmartSpacerGlyph with the spacers drawn without extent (right = left,
\* top = bottom)
SmartSpacerGlyphNoExtent(s, image, b, ps, needs_spacers) ==
    LET spacers == SmartSpacers(b, ps, needs_spacers)
        all_layer_pixels == ps \o spacers
    IN [ i \in 1..Len(all_layer_pixels) |->
           LET r == PixelRect(all_layer_pixels[i], image.h, scale_factor(s),
                              base_offset, baseline_offset)
           IN IF IndexOf(spacers, all_layer_pixels[i]) # 0
              THEN Rect(r.left, r.bottom, r.left, r.bottom)
              ELSE r ]

SmartSpacerGlyph(s, image, b, ps, needs_spacers) ==
    LET spacers == SmartSpacers(b, ps, needs_spacers)
        all_layer_pixels == ps \o spacers
    IN [ i \in 1..Len(all_layer_pixels) |->
           LET r == PixelRect(all_layer_pixels[i], image.h, scale_factor(s),
                              base_offset, baseline_offset)
           IN IF IndexOf(spacers, all_layer_pixels[i]) # 0
              THEN Rect(r.left, r.bottom, r.left + 1, r.bottom + 1)
              ELSE r ]

\* spacers_to_add of create_layer_with_empty_spacers: the corners of the
\* overall shape that are not pixels of the layer
empty_spacers(b, ps) ==
    SelectSeq(<< <<b.min_x, b.min_y>>, <<b.max_x, b.max_y>> >>,
              LAMBDA c : IndexOf(ps, c) = 0)

\* create_layer_with_empty_spacers issues a bare pen.moveTo for every spacer
\* and leaves the contour open; the pen refuses the next moveTo, that of the
\* second spacer or of the first pixel ('"move"-type point must begin a new
\* contour'), so the build fails as soon as there is one spacer
EmptySpacerFails(b, ps) == empty_spacers(b, ps) # <<>>

\* natural_anchors
natural_anchors == << <<0, 15>>, <<0, 14>>, <<14, 15>> >>

\* the anchors create_layer_with_natural_anchors looks up with img.getpixel
AnchorsRead(ps, force_anchors) ==
    IF force_anchors \/ Len(ps) < 20
    THEN SelectSeq(natural_anchors, LAMBDA a : IndexOf(ps, a) = 0)
    ELSE <<>>

\* img.getpixel raises IndexError for one of them
AnchorReadFails(image, ps, force_anchors) ==
    \E i \in 1..Len(AnchorsRead(ps, force_anchors)) :
        ~InImage(image, AnchorsRead(ps, force_anchors)[i])

\* create_layer_with_natural_anchors, create_terminal_layer_with_natural_anchors:
\* the anchors that are not background are drawn in the layer too
NaturalAnchorGlyph(s, image, b, ps, force_anchors) ==
    LET added == SelectSeq(AnchorsRead(ps, force_anchors),
                           LAMBDA a : getpixel(image, a) # bg_color(image))
    IN ColorLayerGlyph(s, image, b, ps \o added)

\* create_single_pixel_glyph
SinglePixelGlyph(s, image, p) ==
    << PixelRect(p, image.h, scale_factor(s), base_offset, baseline_offset) >>

\* create_base_outline_glyph: the tight box of all visible pixels, or the
\* fallback rectangle of the whole scaled image when there is none
BaseOutlineGlyph(s, image, ps) ==
    LET sf == scale_factor(s)
    IN IF ps = <<>>
       THEN << Rect(base_offset, baseline_offset,
                    base_offset + image.w * sf, baseline_offset + image.h * sf) >>
       ELSE LET min_x == SetMin({ ps[i][1] : i \in 1..Len(ps) })
                max_x == SetMax({ ps[i][1] : i \in 1..Len(ps) })
                min_y == SetMin({ image.h - 1 - ps[i][2] : i \in 1..Len(ps) })
                max_y == SetMax({ image.h - 1 - ps[i][2] : i \in 1..Len(ps) })
            IN << Rect(min_x * sf + base_offset, min_y * sf + baseline_offset,
                       (max_x + 1) * sf + base_offset,
                       (max_y + 1) * sf + baseline_offset) >>

\* create_empty_base, create_space_glyph
EmptyGlyph == <<>>

\* create_notdef_glyph, create_terminal_notdef_glyph
NotdefGlyph(s) ==
    IF s = TerminalOptimized
    THEN << Rect(50, 50, 550, 650), Rect(100, 100, 500, 600) >>
    ELSE << Rect(50, 0, 450, 750) >>

(***************************************************************************)
(* Layers: the glyphs of the "glyphs" dict besides .notdef, space, blinka, *)
(* in the order the script inserts them, each with the pixel list it is    *)
(* built from and the colour of that list's group                          *)
(***************************************************************************)
Layer(n, c, ps) == [name |-> n, color |-> c, pixels |-> ps]

\* PixelGlyphName without the colour index: f"pixel_{j}"
PixelGlyphNameNoColor(i, j) == "pixel_" \o FmtInt(j)

\* f"pixel_{i}_{j}"
PixelGlyphName(i, j) == "pixel_" \o FmtInt(i) \o "_" \o FmtInt(j)

\* pixel_glyph_names of create_single_layer_color_blinka
pixel_glyph_names(gs) ==
    Flatten([ i \in 1..Len(gs) |->
                [ j \in 1..Len(gs[i].pixels) |->
                    Layer(PixelGlyphName(i - 1, j - 1), gs[i].color, << gs[i].pixels[j] >>) ] ])

LayerTable(s, gs, all) ==
    IF s = SimplePurple THEN << Layer("blinka.purple", purple_rgb, all) >>
    ELSE IF s \in {ThreeColor, Compensated}
    THEN << Layer("blinka.purple", purple_rgb, gs[3].pixels),
            Layer("blinka.white", white_rgb, gs[1].pixels),
            Layer("blinka.lightblue", light_blue_rgb, gs[2].pixels) >>
    ELSE IF s = SixColor
    THEN << Layer("blinka.purple1", purple_rgb, gs[3].pixels),
            Layer("blinka.purple2", purple2_rgb, gs[4].pixels),
            Layer("blinka.purple3", purple3_rgb, gs[5].pixels),
            Layer("blinka.graybase", gray_base_rgb, gs[6].pixels),
            Layer("blinka.lightblue", light_blue_rgb, gs[2].pixels),
            Layer("blinka.white", white_rgb, gs[1].pixels) >>
    ELSE IF s \in {CompleteColor, FixedSix}
    THEN [ k \in 1..Len(gs) |->
             Layer("blinka.color" \o Fmt02d(k - 1), gs[k].color, gs[k].pixels) ]
    ELSE IF s = SingleLayer THEN pixel_glyph_names(gs)
    ELSE IF s = CleanSplit
    THEN << Layer("blinka.top_half", purple_rgb, gs[1].pixels),
            Layer("blinka.bottom_half", blue_rgb, gs[2].pixels) >>
    ELSE IF s = EmptySpacers
    THEN << Layer("blinka.top_empty_spacers", purple_rgb, gs[1].pixels),
            Layer("blinka.bottom_empty_spacers", blue_rgb, gs[2].pixels) >>
    ELSE IF s = OffsetSpacers
    THEN << Layer("blinka.top_with_offset_spacers", purple_rgb, gs[1].pixels),
            Layer("blinka.bottom_with_offset_spacers", blue_rgb, gs[2].pixels) >>
    ELSE IF s = SnappedCoordinate
    THEN << Layer("blinka.purple", purple_rgb, all),
            Layer("blinka.lightblue", light_blue_rgb, gs[2].pixels),
            Layer("blinka.white", white_rgb, gs[1].pixels) >>
    ELSE << Layer("blinka.base", purple_rgb, all) >>
         \o [ i \in 1..Len(seventeen_colors) |->
                Layer("blinka.color" \o Fmt02d(i), seventeen_colors[i],
                      PixelsOf(gs, seventeen_colors[i])) ]

\* needs_spacers of create_final_seventeen_color_blinka
needs_spacers(layer) ==
    \/ layer.name = "blinka.base"
    \/ Len(layer.pixels) > 4
    \/ layer.color \in {white_rgb, light_blue_rgb, purple_rgb}

\* force_anchors of the natural-anchor scripts
force_anchors(layer) == layer.name # "blinka.base" /\ Len(layer.pixels) <= 8

\* the contours of one layer glyph
LayerGlyph(s, image, b, layer) ==
    IF s = Compensated
    THEN CompensatedLayerGlyph(s, image, layer.pixels, compensation_offsets(layer.color))
    ELSE IF s = FinalSeventeen
    THEN SmartSpacerGlyph(s, image, b, layer.pixels, needs_spacers(layer))
    ELSE IF s \in AnchorScripts
    THEN NaturalAnchorGlyph(s, image, b, layer.pixels, force_anchors(layer))
    ELSE IF s = SingleLayer THEN SinglePixelGlyph(s, image, layer.pixels[1])
    ELSE IF s = OffsetSpacers THEN OffsetSpacerGlyph(s, image, b, layer.pixels)
    ELSE ColorLayerGlyph(s, image, b, layer.pixels)

\* the glyph mapped to the character U+E000
CompositeGlyph(s, image, all) ==
    IF s \in OverallBoundsScripts \cup {SnappedCoordinate} THEN EmptyGlyph
    ELSE BaseOutlineGlyph(s, image, all)

\* the "glyphs" dict
Glyphs(s, image, b, gs, all) ==
    LET table == LayerTable(s, gs, all)
        names == { table[i].name : i \in 1..Len(table) }
    IN [ n \in {".notdef", "space", "blinka"} \cup names |->
           IF n = ".notdef" THEN NotdefGlyph(s)
           ELSE IF n = "space" THEN EmptyGlyph
           ELSE IF n = "blinka" THEN CompositeGlyph(s, image, all)
           ELSE LET i == CHOOSE k \in 1..Len(table) :
                            /\ table[k].name = n
                            /\ \A j \in (k + 1)..Len(table) : table[j].name # n
                IN LayerGlyph(s, image, b, table[i]) ]

\* a layer build raises: an img.getpixel outside the image (IndexError) or
\* a pen.moveTo inside an open contour (PenError)
GlyphBuildFails(s, image, b, gs, all) ==
    \/ /\ s \in AnchorScripts
       /\ \E i \in 1..Len(LayerTable(s, gs, all)) :
             AnchorReadFails(image, LayerTable(s, gs, all)[i].pixels,
                             force_anchors(LayerTable(s, gs, all)[i]))
    \/ /\ s = EmptySpacers
       /\ \E i \in 1..Len(LayerTable(s, gs, all)) :
             EmptySpacerFails(b, LayerTable(s, gs, all)[i].pixels)

GlyphBuildError(s) == IF s = EmptySpacers THEN "PenError" ELSE "IndexError"

(***************************************************************************)
(* Metrics                                                                 *)
(***************************************************************************)
\* glyph_width
GlyphWidth(s, image, b, all) ==
    LET sf == scale_factor(s)
    IN IF s = TerminalOptimized THEN terminal_glyph_width
       ELSE IF s \in OverallBoundsScripts
       THEN (b.max_x - b.min_x + 2) * sf + 100 + (IF s = OffsetSpacers THEN 200 ELSE 0)
       ELSE IF all # <<>>
       THEN LET min_x == SetMin({ all[i][1] : i \in 1..Len(all) })
                max_x == SetMax({ all[i][1] : i \in 1..Len(all) })
            IN (max_x - min_x + 2) * sf + 100
                 + (IF s = Compensated THEN max_compensation
                    ELSE IF s = SnappedCoordinate THEN 12 ELSE 0)
       ELSE image.w * sf + 100 + (IF s = Compensated THEN 12 ELSE 0)

\* the names that get (glyph_width, 50) in the "metrics" dict
MetricNames(s, gs, all) ==
    {"blinka"} \cup { LayerTable(s, gs, all)[i].name : i \in 1..Len(LayerTable(s, gs, all)) }

\* Metrics with the advance width of a layer taken from the layer's own pixels
MetricsPerLayer(s, image, b, gs, all) ==
    LET table == LayerTable(s, gs, all)
    IN [ n \in {".notdef", "space"} \cup MetricNames(s, gs, all) |->
           IF n = ".notdef" THEN << 500, 50 >>
           ELSE IF n = "space" THEN << 600, 0 >>
           ELSE IF n = "blinka" THEN << GlyphWidth(s, image, b, all), 50 >>
           ELSE LET k == CHOOSE i \in 1..Len(table) : table[i].name = n
                    own == table[k].pixels
                IN << (IF own = <<>> THEN image.w * scale_factor(s) + 100
                       ELSE (SetMax({ own[i][1] : i \in 1..Len(own) })
                               - SetMin({ own[i][1] : i \in 1..Len(own) }) + 2)
                              * scale_factor(s) + 100), 50 >> ]

\* the "metrics" dict: glyph name -> (advance width, left side bearing)
Metrics(s, image, b, gs, all) ==
    [ n \in {".notdef", "space"} \cup MetricNames(s, gs, all) |->
        IF n = ".notdef"
        THEN << (IF s = TerminalOptimized THEN terminal_glyph_width ELSE 500), 50 >>
        ELSE IF n = "space"
        THEN << (IF s = TerminalOptimized THEN terminal_glyph_width ELSE 600), 0 >>
        ELSE << GlyphWidth(s, image, b, all), 50 >> ]

(***************************************************************************)
(* Palette and layer list                                                  *)
(***************************************************************************)
\* (r/255.0, g/255.0, b/255.0, 1.0), each component as numerator over
\* denominator
PaletteEntry(c) == << <<c[1], 255>>, <<c[2], 255>>, <<c[3], 255>>, <<1, 1>> >>

\* Palette with one entry per colour group in the order of the groups
PaletteInGroupOrder(s, gs) == [ k \in 1..Len(gs) |-> PaletteEntry(gs[k].color) ]

\* the "palette" list
Palette(s, gs) ==
    IF s = SimplePurple THEN << PaletteEntry(purple_rgb) >>
    ELSE IF s \in {ThreeColor, Compensated, SnappedCoordinate}
    THEN << PaletteEntry(purple_rgb), PaletteEntry(white_rgb), PaletteEntry(light_blue_rgb) >>
    ELSE IF s = SixColor
    THEN << PaletteEntry(purple_rgb), PaletteEntry(purple2_rgb), PaletteEntry(purple3_rgb),
            PaletteEntry(gray_base_rgb), PaletteEntry(light_blue_rgb), PaletteEntry(white_rgb) >>
    ELSE IF s \in {CompleteColor, FixedSix, SingleLayer}
    THEN [ k \in 1..Len(gs) |-> PaletteEntry(gs[k].color) ]
    ELSE IF s \in {CleanSplit, EmptySpacers, OffsetSpacers}
    THEN << PaletteEntry(purple_rgb), PaletteEntry(blue_rgb) >>
    ELSE << PaletteEntry(purple_rgb) >>
         \o [ i \in 1..Len(seventeen_colors) |-> PaletteEntry(seventeen_colors[i]) ]

\* the stacking order the script states for its layers, bottom to top, as
\* the colours of the groups ("Layer stacking: purple -> light blue -> white",
\* "gray base -> purples -> eyes -> highlights", "Layer 0 (bottom): Blue
\* bottom half", "Layer 1 (top): Purple top half")
stacking_order(s) ==
    IF s \in {ThreeColor, Compensated} THEN << purple_rgb, light_blue_rgb, white_rgb >>
    ELSE IF s = SixColor
    THEN << gray_base_rgb, purple_rgb, purple2_rgb, purple3_rgb, light_blue_rgb, white_rgb >>
    ELSE IF s = CleanSplit THEN << blue_rgb, purple_rgb >>
    ELSE <<>>

\* ColrLayers with palette indices counted from one
ColrLayersOneBased(s, gs, all) ==
    [ k \in 1..Len(LayerTable(s, gs, all)) |-> << LayerTable(s, gs, all)[k].name, k >> ]

\* ColrLayers with the layers listed in the order the glyphs were built
ColrLayersInBuildOrder(s, gs, all) ==
    [ k \in 1..Len(LayerTable(s, gs, all)) |-> << LayerTable(s, gs, all)[k].name, k - 1 >> ]

\* ColrLayers with the bottom layer listed a second time on top
ColrLayersBottomTwice(s, gs, all) ==
    Append(ColrLayersInBuildOrder(s, gs, all), ColrLayersInBuildOrder(s, gs, all)[1])

\* colr_data["blinka"]: the (layer glyph name, palette index) pairs, bottom
\* layer first
ColrLayers(s, gs, all) ==
    IF s = SimplePurple THEN << <<"blinka.purple", 0>> >>
    ELSE IF s \in {ThreeColor, Compensated, SnappedCoordinate}
    THEN << <<"blinka.purple", 0>>, <<"blinka.lightblue", 2>>, <<"blinka.white", 1>> >>
    ELSE IF s = SixColor
    THEN << <<"blinka.graybase", 3>>, <<"blinka.purple1", 0>>, <<"blinka.purple2", 1>>,
            <<"blinka.purple3", 2>>, <<"blinka.lightblue", 4>>, <<"blinka.white", 5>> >>
    ELSE IF s \in {CompleteColor, FixedSix}
    THEN [ k \in 1..Len(gs) |-> << "blinka.color" \o Fmt02d(k - 1), k - 1 >> ]
    ELSE IF s = SingleLayer
    THEN LET names == pixel_glyph_names(gs)
             top == [ k \in 1..Len(gs) |-> gs[k].color ]
         IN [ k \in 1..Len(names) |->
                << names[k].name,
                   IF IndexOf(top, names[k].color) # 0
                   THEN IndexOf(top, names[k].color) - 1 ELSE 0 >> ]
    ELSE IF s = CleanSplit
    THEN << <<"blinka.bottom_half", 1>>, <<"blinka.top_half", 0>> >>
    ELSE IF s = EmptySpacers
    THEN << <<"blinka.bottom_empty_spacers", 1>>, <<"blinka.top_empty_spacers", 0>> >>
    ELSE IF s = OffsetSpacers
    THEN << <<"blinka.bottom_with_offset_spacers", 1>>,
            <<"blinka.top_with_offset_spacers", 0>> >>
    ELSE << <<"blinka.base", 0>> >>
         \o [ i \in 1..Len(seventeen_colors) |-> << "blinka.color" \o Fmt02d(i), i >> ]

(***************************************************************************)
(* The run                                                                 *)
(***************************************************************************)
NoGlyphs == [ n \in {} |-> <<>> ]

\* def start_server(port=8000)
default_port == 8000

\* no start_server call is under way
ServerIdle ==
    /\ platform = "linux"
    /\ port = default_port
    /\ missing_files = {}
    /\ attempt_port = default_port
    /\ attempts = <<>>
    /\ spc = "idle"
    /\ result = "none"

InitWith(s, image) ==
    /\ ServerIdle
    /\ script = s
    /\ img = image
    /\ pc = "start"
    /\ err = "none"
    /\ groups = <<>>
    /\ all_visible = <<>>
    /\ bounds = NoBounds
    /\ glyphs = NoGlyphs
    /\ metrics = NoGlyphs
    /\ palette = <<>>
    /\ colr_layers = <<>>
    /\ saved = FALSE

Init == \E s \in Scripts, image \in Images : InitWith(s, image)

\* Raise with the exception swallowed the way the except branch of the
\* colour-table block does: the run goes on to save the font
RaiseSwallowed(e) ==
    /\ pc' = "color"
    /\ err' = e

\* an uncaught exception ends the run
Raise(e) ==
    /\ pc' = "error"
    /\ err' = e

\* create_natural_anchor_blinka prints the colour of every natural anchor
\* before it classifies: img.getpixel raises IndexError outside the image
AnchorPrintFails(s, image) ==
    /\ s = NaturalAnchor
    /\ \E i \in 1..Len(natural_anchors) : ~InImage(image, natural_anchors[i])

\* load the image, take the background colour, classify the pixels
ClassifyPixels ==
    /\ pc = "start"
    /\ IF AnchorPrintFails(script, img)
       THEN /\ Raise("IndexError")
            /\ UNCHANGED <<groups, all_visible>>
       ELSE /\ pc' = "classified"
            /\ groups' = Classify(script, img)
            /\ all_visible' = AllVisible(script, img, Classify(script, img))
            /\ err' = err
    /\ UNCHANGED serverVars
    /\ UNCHANGED <<script, img, bounds, glyphs, metrics, palette, colr_layers, saved>>

\* min_x = min(x for x, y in all_visible_pixels), ...: min() and max() raise
\* ValueError on an empty sequence
ComputeOverallBounds ==
    /\ pc = "classified"
    /\ script \in OverallBoundsScripts
    /\ IF all_visible = <<>>
       THEN /\ Raise("ValueError")
            /\ bounds' = bounds
       ELSE /\ pc' = "bounded"
            /\ bounds' = OverallBounds(all_visible)
            /\ err' = err
    /\ UNCHANGED serverVars
    /\ UNCHANGED <<script, img, groups, all_visible, glyphs, metrics, palette,
                   colr_layers, saved>>

\* glyphs = {...}; fb.setupGlyf(glyphs)
SetupGlyphs ==
    /\ \/ pc = "bounded"
       \/ pc = "classified" /\ script \notin OverallBoundsScripts
    /\ IF GlyphBuildFails(script, img, bounds, groups, all_visible)
       THEN /\ Raise(GlyphBuildError(script))
            /\ glyphs' = glyphs
       ELSE /\ pc' = "glyphs"
            /\ glyphs' = Glyphs(script, img, bounds, groups, all_visible)
            /\ err' = err
    /\ UNCHANGED serverVars
    /\ UNCHANGED <<script, img, groups, all_visible, bounds, metrics, palette,
                   colr_layers, saved>>

\* metrics = {...}; fb.setupHorizontalMetrics(metrics)
SetupMetrics ==
    /\ pc = "glyphs"
    /\ pc' = "metrics"
    /\ metrics' = Metrics(script, img, bounds, groups, all_visible)
    /\ UNCHANGED serverVars
    /\ UNCHANGED <<script, img, err, groups, all_visible, bounds, glyphs, palette,
                   colr_layers, saved>>

\* the try block that builds the palette and the layer list of "blinka"
SetupColor ==
    /\ pc = "metrics"
    /\ pc' = "color"
    /\ palette' = Palette(script, groups)
    /\ colr_layers' = ColrLayers(script, groups, all_visible)
    /\ UNCHANGED serverVars
    /\ UNCHANGED <<script, img, err, groups, all_visible, bounds, glyphs, metrics, saved>>

\* font.save(output_path); return True
SaveFont ==
    /\ pc = "color"
    /\ pc' = "done"
    /\ saved' = TRUE
    /\ UNCHANGED serverVars
    /\ UNCHANGED <<script, img, err, groups, all_visible, bounds, glyphs, metrics,
                   palette, colr_layers>>

Next ==
    \/ ClassifyPixels
    \/ ComputeOverallBounds
    \/ SetupGlyphs
    \/ SetupMetrics
    \/ SetupColor
    \/ SaveFont

Spec == Init /\ [][Next]_vars

(***************************************************************************)
(* Vocabulary of the properties                                            *)
(***************************************************************************)
\* the non-background pixels of an image
VisiblePixelSet(image) ==
    { p \in DOMAIN image.px : image.px[p] # image.px[<<0, 0>>] }

\* all cells of an image
Cells(image) == (0..(image.w - 1)) \X (0..(image.h - 1))

\* map(x, y) of a coordinate mapper (scaleFactor, xOffset, yOffset, imageHeight)
MapRect(x, y, scaleFactor, xOffset, yOffset, imageHeight) ==
    [left |-> x * scaleFactor + xOffset,
     bottom |-> (imageHeight - 1 - y) * scaleFactor + yOffset,
     right |-> x * scaleFactor + xOffset + scaleFactor,
     top |-> (imageHeight - 1 - y) * scaleFactor + yOffset + scaleFactor]

\* the mapper of the current run
RunMap(p) ==
    MapRect(p[1], p[2], scale_factor(script), XOffset(script, bounds), YOffset(script), img.h)

Classified == pc \in {"classified", "bounded", "glyphs", "metrics", "color", "done"}

GlyphsBuilt == pc \in {"glyphs", "metrics", "color", "done"}

MetricsSet == pc \in {"metrics", "color", "done"}

ColorSet == pc \in {"color", "done"}

\* the layers of the current run
RunLayers == LayerTable(script, groups, all_visible)

(***************************************************************************)
(* C1: every rectangle of every layer glyph of one composite glyph is      *)
(* map(x, y) under the same (scaleFactor, xOffset, yOffset, imageHeight):  *)
(* the i-th rectangle of a layer is the map of the i-th pixel of its       *)
(* list, whichever layer that is, and any further rectangle is the map of  *)
(* a cell of the image; no layer has an offset or a size of its own.       *)
(***************************************************************************)
C1_SameMapperInEveryLayer ==
    GlyphsBuilt =>
        \A k \in 1..Len(RunLayers) :
            LET g == glyphs[RunLayers[k].name]
                ps == RunLayers[k].pixels
            IN \A i \in 1..Len(g) :
                 IF i <= Len(ps) THEN g[i] = RunMap(ps[i])
                 ELSE \E p \in Cells(img) : g[i] = RunMap(p)

(***************************************************************************)
(* C2: after classification the colour groups' pixel lists are pairwise    *)
(* disjoint, hold no pixel twice, and their union is exactly the set of    *)
(* non-background pixels, for every script (every classification policy).  *)
(***************************************************************************)
C2_GroupsPartitionVisiblePixels ==
    Classified =>
        /\ \A k \in 1..Len(groups) :
              \A i, j \in 1..Len(groups[k].pixels) :
                  i # j => groups[k].pixels[i] # groups[k].pixels[j]
        /\ \A k, m \in 1..Len(groups) :
              k # m => Range(groups[k].pixels) \cap Range(groups[m].pixels) = {}
        /\ UNION { Range(groups[k].pixels) : k \in 1..Len(groups) } = VisiblePixelSet(img)

(***************************************************************************)
(* C3: for every pixel (x, y) of a layer the rectangle drawn is            *)
(* left = x*scaleFactor + xOffset, right = left + scaleFactor,             *)
(* bottom = (imageHeight - 1 - y)*scaleFactor + yOffset,                   *)
(* top = bottom + scaleFactor (xOffset being the layer's own in the        *)
(* compensated script); the flip always applies: the last raster row has   *)
(* bottom = yOffset and row 0 is the highest band.                         *)
(***************************************************************************)
C3_MappingFormula ==
    GlyphsBuilt =>
        \A k \in 1..Len(RunLayers) :
            LET g == glyphs[RunLayers[k].name]
                ps == RunLayers[k].pixels
                sf == scale_factor(script)
                xo == XOffset(script, bounds)
                        + (IF script = Compensated
                           THEN compensation_offsets(RunLayers[k].color) ELSE 0)
                yo == YOffset(script)
            IN /\ Len(g) >= Len(ps)
               /\ \A i \in 1..Len(ps) :
                    /\ g[i].left = ps[i][1] * sf + xo
                    /\ g[i].right = g[i].left + sf
                    /\ g[i].bottom = (img.h - 1 - ps[i][2]) * sf + yo
                    /\ g[i].top = g[i].bottom + sf
                    /\ (ps[i][2] = img.h - 1 => g[i].bottom = yo)
                    /\ (ps[i][2] = 0 => g[i].top = img.h * sf + yo)
                    /\ \A j \in 1..Len(ps) :
                         ps[j][2] > ps[i][2] => g[j].bottom < g[i].bottom

\* the terminal script has drawn a layer with a pixel of the last raster row
\* and a pixel of a higher row
W3_FlippedRowsDrawn ==
    /\ script = TerminalOptimized
    /\ pc = "done"
    /\ \E k \in 1..Len(RunLayers) :
          \E i, j \in 1..Len(RunLayers[k].pixels) :
              /\ RunLayers[k].pixels[i][2] = img.h - 1
              /\ RunLayers[k].pixels[j][2] < img.h - 1
              /\ glyphs[RunLayers[k].name][i].bottom = 0 - 150

(***************************************************************************)
(* C4: the advance width is one value computed from the union of all       *)
(* visible pixels of the image; the composite glyph and every layer glyph  *)
(* carry exactly that value, whatever pixels the layer itself holds.       *)
(***************************************************************************)
\* the width the script derives from a set of visible pixels
WidthOfUnion(s, image, V) ==
    IF s = TerminalOptimized THEN 600
    ELSE IF V = {}
    THEN image.w * scale_factor(s) + 100 + (IF s = Compensated THEN 12 ELSE 0)
    ELSE (SetMax({ p[1] : p \in V }) - SetMin({ p[1] : p \in V }) + 2) * scale_factor(s)
           + 100 + (IF s \in {Compensated, SnappedCoordinate} THEN 12 ELSE 0)
           + (IF s = OffsetSpacers THEN 200 ELSE 0)

C4_OneAdvanceWidthForAll ==
    MetricsSet =>
        /\ metrics["blinka"][1] = WidthOfUnion(script, img, VisiblePixelSet(img))
        /\ \A n \in DOMAIN glyphs \ {".notdef", "space"} :
              /\ n \in DOMAIN metrics
              /\ metrics[n] = metrics["blinka"]

\* metrics are set for a composite with two non-empty layers that span
\* different columns
W4_LayersOfDifferentExtent ==
    /\ MetricsSet
    /\ script \in {ThreeColor, FinalSeventeen}
    /\ \E k, m \in 1..Len(RunLayers) :
          /\ RunLayers[k].pixels # <<>>
          /\ RunLayers[m].pixels # <<>>
          /\ { p[1] : p \in Range(RunLayers[k].pixels) }
               # { p[1] : p \in Range(RunLayers[m].pixels) }

(***************************************************************************)
(* C5: in the scripts that classify by the fixed list of seventeen colours *)
(* (no fallback), a non-background pixel whose colour is not in the list   *)
(* makes the run fail with a ClassificationError.                          *)
(***************************************************************************)
UnmatchedColorPresent ==
    \E p \in VisiblePixelSet(img) : IndexOf(seventeen_colors, img.px[p]) = 0

C5_UnmatchedColorIsAnError ==
    (script \in SeventeenScripts /\ UnmatchedColorPresent /\ pc # "start")
        => (pc = "error" /\ err = "ClassificationError")

(***************************************************************************)
(* C6 is checked on the scripts that keep the most frequent colours and    *)
(* merge the rest, run on every colouring pattern of the first             *)
(* PatternCells cells of an image PatternWidth cells wide.  These scripts  *)
(* compare colours only with each other, so one image per pattern of       *)
(* equal and different cells covers them.                                  *)
(***************************************************************************)
PatternCells == 8

PatternWidth == 3

SeqMax(s) == SetMax(Range(s))

\* restricted growth strings: the first cell has colour 1, every other cell
\* a colour seen before or the next new one
RECURSIVE Patterns(_)
Patterns(n) ==
    IF n = 1 THEN { <<1>> }
    ELSE UNION { { Append(s, c) : c \in 1..(SeqMax(s) + 1) } : s \in Patterns(n - 1) }

PatternImage(pat) ==
    [w |-> PatternWidth,
     h |-> (Len(pat) + PatternWidth - 1) \div PatternWidth,
     px |-> [ p \in { << (i - 1) % PatternWidth, (i - 1) \div PatternWidth >> : i \in 1..Len(pat) }
               |-> ColorList[pat[p[2] * PatternWidth + p[1] + 1]] ]]

PatternImages == { PatternImage(pat) : pat \in Patterns(PatternCells) }

InitTopN == \E s \in TopNScripts, image \in PatternImages : InitWith(s, image)

SpecTopN == InitTopN /\ [][ClassifyPixels]_vars

(***************************************************************************)
(* C6: in the top-N scripts every pixel is in exactly one group; a pixel   *)
(* of a kept colour is in that colour's group, and a pixel of any other    *)
(* colour is in the group that held the most pixels (matched or merged)    *)
(* among the pixels scanned before it, the earliest such group in the      *)
(* order of the kept colours on a tie.                                     *)
(***************************************************************************)
\* the number of pixels of group k scanned before pixel p
HeldBefore(k, p) ==
    Cardinality({ q \in Range(groups[k].pixels) : ScanKey(img, q) < ScanKey(img, p) })

C6_MergeIntoLargestGroup ==
    (script \in TopNScripts /\ Classified) =>
        \A p \in VisiblePixelSet(img) :
            /\ Cardinality({ k \in 1..Len(groups) : p \in Range(groups[k].pixels) }) = 1
            /\ LET g == CHOOSE k \in 1..Len(groups) : p \in Range(groups[k].pixels)
                   kept == { groups[k].color : k \in 1..Len(groups) }
               IN IF img.px[p] \in kept THEN groups[g].color = img.px[p]
                  ELSE \A k \in 1..Len(groups) :
                         \/ HeldBefore(k, p) < HeldBefore(g, p)
                         \/ HeldBefore(k, p) = HeldBefore(g, p) /\ g <= k

\* a pixel of a colour that is not kept was merged into a group other than
\* the first, which was the largest only by a pixel merged into it earlier
W6_MergedPixelDecides ==
    /\ script = SingleLayer
    /\ Classified
    /\ \E g \in 2..Len(groups) :
          \E i, j \in 1..Len(groups[g].pixels) :
              /\ i < j
              /\ img.px[groups[g].pixels[i]] # groups[g].color
              /\ img.px[groups[g].pixels[j]] # groups[g].color
              /\ HeldBefore(1, groups[g].pixels[j]) = HeldBefore(g, groups[g].pixels[j]) - 1
              /\ HeldBefore(1, groups[g].pixels[j]) > 0

(***************************************************************************)
(* C7: the layer list of the composite glyph is the script's stated        *)
(* bottom-to-top stacking order: the i-th layer emitted is the glyph built *)
(* from the i-th group of that order, whatever the palette indices, the    *)
(* group sizes and the order in which the glyphs were built.               *)
(***************************************************************************)
StackedScripts == {ThreeColor, Compensated, SixColor, CleanSplit}

C8_OneRectanglePerPixel ==
    (GlyphsBuilt /\ script \in {ThreeColor, FinalSeventeen, NaturalAnchor}) =>
        \A k \in { j \in 1..Len(RunLayers) : RunLayers[j].name # "blinka.base" } :
            /\ Len(glyphs[RunLayers[k].name]) = Len(RunLayers[k].pixels)
            /\ \A i \in 1..Len(RunLayers[k].pixels) :
                  glyphs[RunLayers[k].name][i] = RunMap(RunLayers[k].pixels[i])

(***************************************************************************)
(* C9: when the image has no visible pixel the bounds computation raises   *)
(* no error and the run goes on with the default advance width (the width  *)
(* of the whole scaled image plus the side bearing).                       *)
(***************************************************************************)
C9_EmptyUnionGivesDefaults ==
    (script \in {ThreeColor, CleanSplit, FinalSeventeen}
        /\ VisiblePixelSet(img) = {} /\ pc \notin {"start", "classified"}) =>
        /\ pc # "error"
        /\ MetricsSet => metrics["blinka"][1] = img.w * scale_factor(script) + 100

(***************************************************************************)
(* C10: for an image with no visible pixel the run raises no error, no     *)
(* colour group holds a pixel, no layer glyph and no composite glyph has a *)
(* contour, and the advance width is the default one.                      *)
(***************************************************************************)
C10_AllBackgroundImage ==
    (script \in {SimplePurple, CompleteColor, NaturalAnchor}
        /\ VisiblePixelSet(img) = {}) =>
        /\ pc # "error"
        /\ \A k \in 1..Len(groups) : groups[k].pixels = <<>>
        /\ GlyphsBuilt => \A n \in DOMAIN glyphs \ {".notdef", "space"} : glyphs[n] = <<>>
        /\ MetricsSet => metrics["blinka"][1] = img.w * scale_factor(script) + 100

(***************************************************************************)
(* C11: for the 2 x 2 image whose pixel (0,0) is (128,32,192) and whose    *)
(* other pixels are (0,0,0), with scale factor 4 and offsets 50 and 100,   *)
(* the three-colour script ends up with exactly one non-empty colour       *)
(* group, holding exactly the pixel (0,0), and its layer glyph has exactly *)
(* the rectangle left 50, bottom 104, right 54, top 108.                   *)
(***************************************************************************)
C11_ScenarioAOnePixelOneRectangle ==
    (script = ThreeColor /\ img = ScenarioA /\ scale_factor(script) = 4
        /\ XOffset(script, bounds) = 50 /\ YOffset(script) = 100) =>
        /\ Classified =>
             /\ Cardinality({ k \in 1..Len(groups) : groups[k].pixels # <<>> }) = 1
             /\ \E k \in 1..Len(groups) : groups[k].pixels = << <<0, 0>> >>
        /\ GlyphsBuilt =>
             \E k \in 1..Len(RunLayers) :
                 /\ glyphs[RunLayers[k].name] = << Rect(50, 104, 54, 108) >>
                 /\ \A j \in 1..Len(RunLayers) :
                       j # k => glyphs[RunLayers[j].name] = <<>>

(***************************************************************************)
(* C12 is checked on create_complete_color_blinka run on every colouring   *)
(* pattern of the first PatternCells cells.                                *)
(***************************************************************************)
InitDistinct == \E image \in PatternImages : InitWith(CompleteColor, image)

SpecDistinct == InitDistinct /\ [][ClassifyPixels]_vars

\* the cells of the image that have the background colour
BackgroundCells(image) == { p \in Cells(image) : getpixel(image, p) = bg_color(image) }

\* the distinct colours of the image other than the background colour
DistinctColors(image) == { getpixel(image, p) : p \in Cells(image) } \ {bg_color(image)}

(***************************************************************************)
(* C12: with one group per colour, the number of groups is the number of   *)
(* distinct non-background colours of the image, no group is empty, and    *)
(* the group sizes add up to the number of pixels minus the number of      *)
(* background-coloured pixels.                                             *)
(***************************************************************************)
C12_OneGroupPerDistinctColor ==
    (script = CompleteColor /\ Classified) =>
        /\ Len(groups) = Cardinality(DistinctColors(img))
        /\ \A k \in 1..Len(groups) : groups[k].pixels # <<>>
        /\ Len(Flatten([ k \in 1..Len(groups) |-> groups[k].pixels ]))
             = img.w * img.h - Cardinality(BackgroundCells(img))

\* an image with several background cells was classified into at least
\* four groups, one of them with more than one pixel
W12_SeveralColorsSomeRepeated ==
    /\ script = CompleteColor
    /\ Classified
    /\ Len(groups) >= 4
    /\ \E k \in 1..Len(groups) : Len(groups[k].pixels) >= 2
    /\ Cardinality(BackgroundCells(img)) >= 3

C17_EmptyListGivesEmptyGlyph ==
    /\ GlyphsBuilt =>
          \A k \in 1..Len(RunLayers) :
              RunLayers[k].pixels = <<>> => glyphs[RunLayers[k].name] = <<>>
    /\ (pc = "error" /\ err = "PenError") =>
          \A k \in 1..Len(RunLayers) :
              RunLayers[k].pixels = <<>> => ~EmptySpacerFails(bounds, RunLayers[k].pixels)

(***************************************************************************)
(* C18: in the scripts with one mapping for all layers, the rectangle of a *)
(* pixel (x, y) gives the pixel back: left - xOffset is a multiple of the  *)
(* scale factor with quotient x, bottom - yOffset a multiple with quotient *)
(* imageHeight - 1 - y; so two different pixels never get the same         *)
(* rectangle, and the same pixel drawn again, in the same or in another    *)
(* layer, gets the identical rectangle.                                    *)
(***************************************************************************)
C18_RectangleRecoversPixel ==
    (script \in {ThreeColor, SnappedCoordinate} /\ GlyphsBuilt) =>
        \A k \in 1..Len(RunLayers) :
            \A i \in 1..Len(RunLayers[k].pixels) :
                LET r == glyphs[RunLayers[k].name][i]
                    p == RunLayers[k].pixels[i]
                    sf == scale_factor(script)
                IN /\ (r.left - XOffset(script, bounds)) % sf = 0
                   /\ (r.left - XOffset(script, bounds)) \div sf = p[1]
                   /\ (r.bottom - YOffset(script)) % sf = 0
                   /\ (r.bottom - YOffset(script)) \div sf = img.h - 1 - p[2]
                   /\ \A m \in 1..Len(RunLayers) :
                         \A j \in 1..Len(RunLayers[m].pixels) :
                             (RunLayers[m].pixels[j] = p) <=> (glyphs[RunLayers[m].name][j] = r)

\* the snapped-coordinate script drew a layer with two pixels of different
\* rows and columns, one of them drawn in a second layer as well
W18_PixelsDrawnInTwoLayers ==
    /\ script = SnappedCoordinate
    /\ GlyphsBuilt
    /\ \E k, m \in 1..Len(RunLayers) :
          /\ k # m
          /\ \E i, j \in 1..Len(RunLayers[k].pixels) :
                /\ RunLayers[k].pixels[i][1] # RunLayers[k].pixels[j][1]
                /\ RunLayers[k].pixels[i][2] # RunLayers[k].pixels[j][2]
                /\ RunLayers[k].pixels[i] \in Range(RunLayers[m].pixels)

(***************************************************************************)
(* C19: when one more pixel of the image is made visible, the advance      *)
(* width is not smaller than before, also when no pixel was visible        *)
(* before; and when the new pixel lies strictly outside the smallest and   *)
(* largest column or row of the visible pixels, the rectangle of the base  *)
(* outline contains the former one and is larger.                          *)
(***************************************************************************)
C19_OneMorePixelNeverShrinks ==
    (script = ThreeColor /\ MetricsSet) =>
        \A p \in DOMAIN img.px \ { <<0, 0>> } :
            \A c \in Colors \ { bg_color(img) } :
                img.px[p] = bg_color(img) =>
                    LET image2 == [img EXCEPT !.px[p] = c]
                        gs2 == Classify(script, image2)
                        all2 == AllVisible(script, image2, gs2)
                        box == glyphs["blinka"][1]
                        box2 == BaseOutlineGlyph(script, image2, all2)[1]
                        xs == { all_visible[i][1] : i \in 1..Len(all_visible) }
                        ys == { all_visible[i][2] : i \in 1..Len(all_visible) }
                    IN /\ GlyphWidth(script, image2, bounds, all2) >= metrics["blinka"][1]
                       /\ (/\ all_visible # <<>>
                           /\ \/ p[1] < SetMin(xs) \/ p[1] > SetMax(xs)
                              \/ p[2] < SetMin(ys) \/ p[2] > SetMax(ys))
                            => /\ box2.left <= box.left /\ box2.bottom <= box.bottom
                               /\ box2.right >= box.right /\ box2.top >= box.top
                               /\ box2 # box

(***************************************************************************)
(* C20: in create_complete_color_blinka and create_fixed_six_color_blinka  *)
(* the order of the colour groups depends only on the colours and on how   *)
(* many pixels each has: any image of the same size with the same          *)
(* background colour and the same number of pixels of every colour gives   *)
(* the same sequence of group colours, also when two colours have equally  *)
(* many pixels.                                                            *)
(***************************************************************************)
C20_GroupOrderFromKeyAlone ==
    (script \in {CompleteColor, FixedSix} /\ Classified
        /\ img \in ImagesOfSize(<< img.w, img.h >>)) =>
        \A image2 \in ImagesOfSize(<< img.w, img.h >>) :
            (/\ bg_color(image2) = bg_color(img)
             /\ \A c \in Colors :
                   Cardinality({ p \in DOMAIN img.px : img.px[p] = c })
                     = Cardinality({ p \in DOMAIN image2.px : image2.px[p] = c }))
              => LET gs2 == Classify(script, image2)
                 IN [ k \in 1..Len(gs2) |-> gs2[k].color ]
                      = [ k \in 1..Len(groups) |-> groups[k].color ]

(***************************************************************************)
(* C21: the layer list of the composite glyph is a permutation of the      *)
(* layer glyphs that were built: it is as long as the list of built        *)
(* layers, names every built layer, names nothing else and names no layer  *)
(* twice.                                                                  *)
(***************************************************************************)
C21_LayerListIsPermutation ==
    ColorSet =>
        /\ Len(colr_layers) = Len(RunLayers)
        /\ { colr_layers[k][1] : k \in 1..Len(colr_layers) }
             = { RunLayers[k].name : k \in 1..Len(RunLayers) }
        /\ \A j, k \in 1..Len(colr_layers) :
              colr_layers[j][1] = colr_layers[k][1] => j = k

\* the six-colour script finished with a layer list in another order than
\* the order the layers were built in, two of the layers holding pixels
W21_SixLayersReordered ==
    /\ script = SixColor
    /\ pc = "done"
    /\ Len(colr_layers) = 6
    /\ colr_layers[1][1] # RunLayers[1].name
    /\ Cardinality({ k \in 1..6 : RunLayers[k].pixels # <<>> }) >= 2

(***************************************************************************)
(* C22: the glyph mapped to the visible character, "blinka", has no        *)
(* contour of its own in any run; every contour is in a layer glyph.       *)
(***************************************************************************)
C22_CompositeOwnsNoGeometry ==
    GlyphsBuilt => glyphs["blinka"] = <<>>

(***************************************************************************)
(* The builds in any order                                                 *)
(*                                                                         *)
(* The entries of the "glyphs" dict and the advance width are computed by  *)
(* calls that read the image, the pixel lists and nothing else.  Here the  *)
(* calls of create_three_color_blinka and create_fixed_six_color_blinka    *)
(* are single steps taken in any order after the classification; the run   *)
(* goes on to the colour tables when all of them are done.  The order of   *)
(* the scripts themselves (fixed glyphs, layers in dict order, width) is   *)
(* one of these orders.                                                    *)
(***************************************************************************)
AnyOrderScripts == {ThreeColor, FixedSix}

InitAnyOrder == \E s \in AnyOrderScripts, image \in Images : InitWith(s, image)

\* ".notdef", "space" and "blinka" of the glyphs dict
BuildFixedGlyphs ==
    /\ pc = "classified"
    /\ ".notdef" \notin DOMAIN glyphs
    /\ glyphs' = glyphs @@ (".notdef" :> NotdefGlyph(script))
                        @@ ("space" :> EmptyGlyph)
                        @@ ("blinka" :> CompositeGlyph(script, img, all_visible))
    /\ UNCHANGED serverVars
    /\ UNCHANGED <<script, img, pc, err, groups, all_visible, bounds, metrics, palette,
                   colr_layers, saved>>

\* BuildLayerGlyph with one pen for all layers: the contours drawn so far
\* stay in the pen
BuildLayerGlyphSharedPen(k) ==
    /\ pc = "classified"
    /\ RunLayers[k].name \notin DOMAIN glyphs
    /\ glyphs' = glyphs @@ (RunLayers[k].name :>
                    Flatten([ j \in 1..Len(RunLayers) |->
                                IF RunLayers[j].name \in DOMAIN glyphs
                                THEN LayerGlyph(script, img, bounds, RunLayers[j])
                                ELSE <<>> ])
                      \o LayerGlyph(script, img, bounds, RunLayers[k]))
    /\ UNCHANGED serverVars
    /\ UNCHANGED <<script, img, pc, err, groups, all_visible, bounds, metrics, palette,
                   colr_layers, saved>>

\* one create_color_layer_glyph(pixels, name) entry of the glyphs dict
BuildLayerGlyph(k) ==
    /\ pc = "classified"
    /\ RunLayers[k].name \notin DOMAIN glyphs
    /\ glyphs' = glyphs @@ (RunLayers[k].name :> LayerGlyph(script, img, bounds, RunLayers[k]))
    /\ UNCHANGED serverVars
    /\ UNCHANGED <<script, img, pc, err, groups, all_visible, bounds, metrics, palette,
                   colr_layers, saved>>

\* glyph_width and the metrics dict
ComputeGlyphWidth ==
    /\ pc = "classified"
    /\ metrics = NoGlyphs
    /\ metrics' = Metrics(script, img, bounds, groups, all_visible)
    /\ UNCHANGED serverVars
    /\ UNCHANGED <<script, img, pc, err, groups, all_visible, bounds, glyphs, palette,
                   colr_layers, saved>>

\* fb.setupGlyf(glyphs) and fb.setupHorizontalMetrics(metrics) have both
\* been given their dict
JoinBuilds ==
    /\ pc = "classified"
    /\ DOMAIN glyphs = {".notdef", "space", "blinka"}
                         \cup { RunLayers[k].name : k \in 1..Len(RunLayers) }
    /\ metrics # NoGlyphs
    /\ pc' = "metrics"
    /\ UNCHANGED serverVars
    /\ UNCHANGED <<script, img, err, groups, all_visible, bounds, glyphs, metrics, palette,
                   colr_layers, saved>>

NextAnyOrder ==
    \/ ClassifyPixels
    \/ BuildFixedGlyphs
    \/ pc = "classified" /\ \E k \in 1..Len(RunLayers) : BuildLayerGlyph(k)
    \/ ComputeGlyphWidth
    \/ JoinBuilds
    \/ SetupColor
    \/ SaveFont

SpecAnyOrder == InitAnyOrder /\ [][NextAnyOrder]_vars

C24_RectanglesHaveExtent ==
    GlyphsBuilt =>
        \A n \in DOMAIN glyphs :
            \A i \in 1..Len(glyphs[n]) :
                glyphs[n][i].left < glyphs[n][i].right /\ glyphs[n][i].bottom < glyphs[n][i].top

\* a layer of the seventeen-colour script holds a pixel rectangle and a
\* spacer of one font unit
W24_SpacerAndPixelDrawn ==
    /\ script = FinalSeventeen
    /\ GlyphsBuilt
    /\ \E k \in 1..Len(RunLayers) :
          LET g == glyphs[RunLayers[k].name]
          IN \E i, j \in 1..Len(g) :
                /\ g[i].right - g[i].left = 1
                /\ g[j].right - g[j].left = scale_factor(script)

(***************************************************************************)
(* C25: every coordinate pair in a layer's pixel list, and every pair a    *)
(* rectangle of a layer glyph was mapped from, is a cell of the image:     *)
(* 0 <= x < width and 0 <= y < height.                                     *)
(***************************************************************************)
C25_MappedPairsInsideRaster ==
    GlyphsBuilt =>
        \A k \in 1..Len(RunLayers) :
            LET g == glyphs[RunLayers[k].name]
                sf == scale_factor(script)
                xo == XOffset(script, bounds)
                        + (IF script = Compensated
                           THEN compensation_offsets(RunLayers[k].color) ELSE 0)
                yo == YOffset(script)
            IN /\ \A i \in 1..Len(RunLayers[k].pixels) : InImage(img, RunLayers[k].pixels[i])
               /\ \A i \in 1..Len(g) :
                     InImage(img, << (g[i].left - xo) \div sf,
                                     img.h - 1 - ((g[i].bottom - yo) \div sf) >>)

(***************************************************************************)
(* C26: in the seventeen-colour scripts, with every layer painted opaque   *)
(* over the layers before it in the layer list, each visible pixel shows   *)
(* its own colour: some layer has a rectangle covering the pixel's cell,   *)
(* and the palette entry of the last such layer of the list is the colour  *)
(* the pixel has in the image.                                             *)
(***************************************************************************)
C26_RenderedColorIsSourceColor ==
    (script \in SeventeenScripts /\ ColorSet) =>
        \A p \in VisiblePixelSet(img) :
            LET cell == RunMap(p)
                covering == { k \in 1..Len(colr_layers) :
                                \E i \in 1..Len(glyphs[colr_layers[k][1]]) :
                                    LET r == glyphs[colr_layers[k][1]][i]
                                    IN /\ r.left <= cell.left /\ r.right >= cell.right
                                       /\ r.bottom <= cell.bottom /\ r.top >= cell.top }
            IN /\ covering # {}
               /\ palette[colr_layers[SetMax(covering)][2] + 1] = PaletteEntry(getpixel(img, p))

\* the bounding box of the union of the visible pixels: the rectangle of
\* create_base_outline_glyph where the script draws it, else the overall
\* bounds min_x..max_y in font units
RunBoundingBox ==
    IF script \in OverallBoundsScripts
    THEN Rect(bounds.min_x * scale_factor(script) + XOffset(script, bounds),
              (img.h - 1 - bounds.max_y) * scale_factor(script) + YOffset(script),
              (bounds.max_x + 1) * scale_factor(script) + XOffset(script, bounds),
              (img.h - bounds.min_y) * scale_factor(script) + YOffset(script))
    ELSE glyphs["blinka"][1]

\* all rectangles of all layer glyphs of the run
RunContours ==
    UNION { Range(glyphs[RunLayers[k].name]) : k \in 1..Len(RunLayers) }

(***************************************************************************)
(* C27: when some pixel is visible, the bounding box of the union of the   *)
(* visible pixels is the smallest rectangle around all rectangles of all   *)
(* layer glyphs: every layer rectangle lies inside it, and each of its     *)
(* four sides is the side of some layer rectangle.                         *)
(***************************************************************************)
C27_BoundingBoxIsTight ==
    (script \in {ThreeColor, Compensated, OffsetSpacers} /\ GlyphsBuilt
        /\ all_visible # <<>>) =>
        /\ \A r \in RunContours :
              /\ RunBoundingBox.left <= r.left /\ r.right <= RunBoundingBox.right
              /\ RunBoundingBox.bottom <= r.bottom /\ r.top <= RunBoundingBox.top
        /\ \E r \in RunContours : r.left = RunBoundingBox.left
        /\ \E r \in RunContours : r.right = RunBoundingBox.right
        /\ \E r \in RunContours : r.bottom = RunBoundingBox.bottom
        /\ \E r \in RunContours : r.top = RunBoundingBox.top

(***************************************************************************)
(* C28: every entry of the layer list names a built layer, has a palette   *)
(* index from 0 to the palette length less one, and the palette entry at   *)
(* that index is the colour of the group the layer was built from (for     *)
(* the base layer of all visible pixels, the base colour).                 *)
(***************************************************************************)
C28_PaletteEntryIsGroupColor ==
    ColorSet =>
        \A k \in 1..Len(colr_layers) :
            /\ colr_layers[k][2] \in 0..(Len(palette) - 1)
            /\ \E j \in 1..Len(RunLayers) :
                  /\ RunLayers[j].name = colr_layers[k][1]
                  /\ palette[colr_layers[k][2] + 1] = PaletteEntry(RunLayers[j].color)

\* a finished run whose layer list is in another order than the palette
\* and has two layers with pixels and different palette entries
W28_TwoColorsOutOfPaletteOrder ==
    /\ pc = "done"
    /\ \E j, k \in 1..Len(colr_layers) :
          /\ j < k
          /\ colr_layers[j][2] > colr_layers[k][2]
          /\ glyphs[colr_layers[j][1]] # <<>>
          /\ glyphs[colr_layers[k][1]] # <<>>
          /\ palette[colr_layers[j][2] + 1] # palette[colr_layers[k][2] + 1]

(***************************************************************************)
(* C29: when some pixel is visible, every rectangle of every layer glyph   *)
(* lies within the advance of the glyph: 0 <= left and right <= advance    *)
(* width, wherever the leftmost and rightmost visible columns are.         *)
(***************************************************************************)
C29_ContoursWithinAdvance ==
    (script \in {ThreeColor, TerminalOptimized} /\ MetricsSet /\ all_visible # <<>>) =>
        \A r \in RunContours : 0 <= r.left /\ r.right <= metrics["blinka"][1]

(***************************************************************************)
(* The font test server (src/font_test_server.py)                          *)
(*                                                                         *)
(* One call of start_server(port).  What the operating system answers to   *)
(* a bind is an input: the port binds, the bind fails with OSError and     *)
(* the platform's errno for "address in use" or for "permission denied",   *)
(* or, for a port number above 65535, socket.bind raises OverflowError.    *)
(* attempts records every (port, answer) in the order of the tries.        *)
(***************************************************************************)
required_files ==
    {"FreeMono-Color-Blinka.ttf", "test_color_blinka_font.html", "assets/blinka.bmp"}

\* range(port, port + 10)
port_attempts == 10

\* if e.errno == 98:  # Address already in use
address_in_use_errno == 98

\* the largest port number socket.bind accepts
max_port == 65535

Platforms == {"linux", "darwin"}

Ports == {default_port, max_port - 5}

\* errno.EADDRINUSE and errno.EACCES of the platform
EADDRINUSE(pl) == IF pl = "linux" THEN 98 ELSE 48

EACCES == 13

Errno(pl, answer) == IF answer = "EADDRINUSE" THEN EADDRINUSE(pl) ELSE EACCES

\* what socketserver.TCPServer(("", p), ...) can do
BindOutcomes(p) ==
    IF p > max_port THEN {"OverflowError"} ELSE {"bound", "EADDRINUSE", "EACCES"}

InitServer ==
    /\ script = "font_test_server"
    /\ img = [w |-> 0, h |-> 0, px |-> <<>>]
    /\ pc = "idle"
    /\ err = "none"
    /\ groups = <<>>
    /\ all_visible = <<>>
    /\ bounds = NoBounds
    /\ glyphs = NoGlyphs
    /\ metrics = NoGlyphs
    /\ palette = <<>>
    /\ colr_layers = <<>>
    /\ saved = FALSE
    /\ platform \in Platforms
    /\ port \in Ports
    /\ missing_files \in SUBSET required_files
    /\ attempt_port = port
    /\ attempts = <<>>
    /\ spc = "start"
    /\ result = "none"

\* the check of required_files: return False when one is missing
CheckRequiredFiles ==
    /\ spc = "start"
    /\ IF missing_files # {}
       THEN spc' = "returned" /\ result' = "False"
       ELSE spc' = "loop" /\ result' = result
    /\ UNCHANGED <<platform, port, missing_files, attempt_port, attempts>>
    /\ UNCHANGED fontVars

\* one pass of "for attempt_port in range(port, port + 10)": the bind, then
\* serve_forever, or the except OSError branch
TryPort ==
    /\ spc = "loop"
    /\ attempt_port < port + port_attempts
    /\ \E answer \in BindOutcomes(attempt_port) :
          /\ attempts' = Append(attempts, << attempt_port, answer >>)
          /\ IF answer = "bound"
             THEN /\ spc' = "serving"
                  /\ UNCHANGED <<attempt_port, result>>
             ELSE IF answer = "OverflowError"
             THEN /\ spc' = "raised"
                  /\ result' = "OverflowError"
                  /\ UNCHANGED attempt_port
             ELSE IF Errno(platform, answer) = address_in_use_errno
             THEN /\ attempt_port' = attempt_port + 1
                  /\ UNCHANGED <<spc, result>>
             ELSE /\ spc' = "returned"
                  /\ result' = "False"
                  /\ UNCHANGED attempt_port
    /\ UNCHANGED <<platform, port, missing_files>>
    /\ UNCHANGED fontVars

\* the loop ran out of ports: "Could not find an available port"; return False
LoopExhausted ==
    /\ spc = "loop"
    /\ attempt_port = port + port_attempts
    /\ spc' = "returned"
    /\ result' = "False"
    /\ UNCHANGED <<platform, port, missing_files, attempt_port, attempts>>
    /\ UNCHANGED fontVars

\* httpd.serve_forever() ends only with Ctrl+C, which start_server does not
\* catch
KeyboardInterrupt ==
    /\ spc = "serving"
    /\ spc' = "raised"
    /\ result' = "KeyboardInterrupt"
    /\ UNCHANGED <<platform, port, missing_files, attempt_port, attempts>>
    /\ UNCHANGED fontVars

NextServer ==
    \/ CheckRequiredFiles
    \/ TryPort
    \/ LoopExhausted
    \/ KeyboardInterrupt

SpecServer == InitServer /\ [][NextServer]_vars

(***************************************************************************)
(* C30: start_server(port) returns False without a bind when a required    *)
(* file is missing.  Otherwise the ports tried are port, port + 1, ... in  *)
(* ascending order, at most ten of them; every try but the last found its  *)
(* port in use; a port found in use is followed by the next port, and by   *)
(* the return of False only when it was port + 9; any other failure of a   *)
(* bind makes the call return False at once; the first port that binds is  *)
(* served and nothing is tried after it.                                   *)
(***************************************************************************)
C30_PortSearch ==
    LET n == Len(attempts)
        ended == spc \in {"returned", "raised"}
    IN /\ missing_files # {} => attempts = <<>> /\ (ended => result = "False")
       /\ n <= port_attempts
       /\ \A i \in 1..n : attempts[i][1] = port + i - 1
       /\ \A i \in 1..(n - 1) : attempts[i][2] = "EADDRINUSE"
       /\ (n > 0 /\ attempts[n][2] = "EADDRINUSE") =>
             \/ spc = "loop"
             \/ n = port_attempts /\ spc = "returned" /\ result = "False"
       /\ (n > 0 /\ attempts[n][2] \notin {"EADDRINUSE", "bound"}) =>
             spc = "returned" /\ result = "False"
       /\ (n > 0 /\ attempts[n][2] = "bound") =>
             spc = "serving" \/ result = "KeyboardInterrupt"

====
